---- MODULE Spec2Model ----
(***************************************************************************)
(* eth-alive: the watchdog loop of src/src/main.rs.                        *)
(*                                                                         *)
(* One loop iteration ("cycle") is fetch remote, fetch local, match on the *)
(* two results, optionally process_alert (gate, send_alert, stamp), sleep. *)
(* The iteration is cut at its await points and at its two reads of the    *)
(* clock (Utc::now() at line 209 and again at line 216), so that time can  *)
(* pass between them.  Time is counted in abstract ticks; the clock never  *)
(* runs backwards and is capped at MaxTime.                                *)
(*                                                                         *)
(* Spec is the loop; LiveSpec is the loop under a fair scheduler and an    *)
(* advancing clock; PureSpec applies parse_hex_to_u64 and                  *)
(* fetch_block_number to arguments drawn from bounded sets.                *)
(***************************************************************************)
EXTENDS Integers, Sequences, FiniteSets, TLC

\* ---- bounds of the model ----
MaxTime == 5
MaxCooldown == 2
MaxHeight == 2
MaxThreshold == 2
MaxPoll == 1
MaxHexLen == 5

\* u64 holds sixteen hexadecimal digits
U64HexDigits == 16

\* Option<DateTime<Utc>>::None
None == -1

\* Result<u64, Box<dyn Error>> of fetch_block_number
Ok(h) == [ok |-> TRUE, val |-> h]
Err == [ok |-> FALSE, val |-> 0]
NoResult == [ok |-> FALSE, val |-> -1]
RpcResults == {Ok(h) : h \in 0..MaxHeight} \cup {Err}

\* The two functions checked on their own: not called yet, no response yet
NotRun == [ok |-> FALSE, val |-> <<>>, err |-> "not_run", msg |-> "none"]
NoResponse == [transport |-> "none"]

\* The webhook URL, by what send_alert asks of it: the empty string, the
\* placeholder itself, another URL that has "REDACTED" somewhere in it, and a
\* URL without it
WebhookUrls == {"empty", "placeholder", "embeds_placeholder", "configured"}
\* The text of each, as a sequence of pieces
UrlText(url) ==
    CASE url = "empty" -> <<>>
      [] url = "placeholder" -> <<"REDACTED">>
      [] url = "embeds_placeholder" -> <<"https://host/hooks/1/tok", "REDACTED", "en">>
      [] url = "configured" -> <<"https://host/hooks/1/token">>

\* url.is_empty()
is_empty(url) == Len(UrlText(url)) = 0

\* url.contains("REDACTED")
contains_REDACTED(url) == \E i \in 1..Len(UrlText(url)) : UrlText(url)[i] = "REDACTED"

\* What the network does with the webhook POST
WebhookResponses == {"transport_failure", "status_2xx", "status_non2xx"}

VARIABLES
    pc,                     \* position in the loop body
    now,                    \* the clock, Utc::now()
    last_alert_time,        \* main: let mut last_alert_time
    lag_threshold,          \* config.lag_threshold
    alert_cooldown,         \* main: let alert_cooldown
    poll_interval_seconds,  \* config.poll_interval_seconds
    discord_webhook,        \* config.discord_webhook
    remote_result,          \* main: let remote_result
    local_result,           \* main: let local_result
    verdict,                \* the match arm taken in this cycle
    lag,                    \* main: let lag
    lead,                   \* main: let lead
    should_alert,           \* process_alert: let should_alert
    gate_now,               \* the clock as read when should_alert was computed
    webhook_response,       \* what the network answered to this cycle's POST
    send_result,            \* what send_alert returned in this cycle
    pre_last,               \* history: last_alert_time when the cycle started
    dispatches,             \* history: calls of send_alert in this cycle
    last_stamp,             \* history: the value of the latest stamp
    synced_since,           \* history: a Synced cycle has ended since last_stamp
    retry_pending,          \* history: the latest earlier dispatch attempt failed and no
                            \*          alertable cycle has ended since
    fresh,                  \* history: no alertable cycle has ended since the start or
                            \*          since the latest Synced cycle
    sent_ok,                \* history: send_alert has returned Ok since the start or
                            \*          since the latest Synced cycle ended
    rpc_log,                \* history: the RPC requests issued in this cycle, in order
    hex_in,                 \* parse_hex_to_u64: the argument
    hex_out,                \* parse_hex_to_u64: the value returned
    resp,                   \* fetch_block_number: what the endpoint answers
    rpc_out                 \* fetch_block_number: the value returned

vars == <<pc, now, last_alert_time, lag_threshold, alert_cooldown, poll_interval_seconds,
          discord_webhook, remote_result, local_result, verdict, lag, lead, should_alert,
          gate_now, webhook_response, send_result, pre_last, dispatches, last_stamp,
          synced_since, retry_pending, fresh, sent_ok, rpc_log, hex_in, hex_out, resp,
          rpc_out>>

\* The variables of the two functions checked on their own
pure == <<hex_in, hex_out, resp, rpc_out>>

history == <<last_stamp, synced_since, retry_pending, fresh>>

config == <<lag_threshold, alert_cooldown, poll_interval_seconds, discord_webhook>>

\* ---- the pure parts of the code ----

\* Variant of Classify: the health threshold taken as an inclusive bound
ClassifyInclusive(remote, local, threshold) ==
    IF ~remote.ok THEN "RemoteUnreachable"
    ELSE IF ~local.ok THEN "LocalUnreachable"
    ELSE IF local.val <= remote.val
         THEN IF remote.val - local.val <= threshold THEN "Synced" ELSE "Lagging"
         ELSE "LocalAhead"

\* Variant of Classify: the local failure matched before the remote failure
ClassifyLocalFirst(remote, local, threshold) ==
    IF ~local.ok THEN "LocalUnreachable"
    ELSE IF ~remote.ok THEN "RemoteUnreachable"
    ELSE IF local.val <= remote.val
         THEN IF remote.val - local.val < threshold THEN "Synced" ELSE "Lagging"
         ELSE "LocalAhead"

\* Variant of Classify: the comparison guarding the subtractions turned round
ClassifyGuardSwapped(remote, local, threshold) ==
    IF ~remote.ok THEN "RemoteUnreachable"
    ELSE IF ~local.ok THEN "LocalUnreachable"
    ELSE IF local.val >= remote.val
         THEN IF remote.val - local.val < threshold THEN "Synced" ELSE "Lagging"
         ELSE "LocalAhead"

\* The match on (remote_result, local_result) with the nested ifs: which arm runs
Classify(remote, local, threshold) ==
    IF ~remote.ok THEN "RemoteUnreachable"
    ELSE IF ~local.ok THEN "LocalUnreachable"
    ELSE IF local.val <= remote.val
         THEN IF remote.val - local.val < threshold THEN "Synced" ELSE "Lagging"
         ELSE "LocalAhead"

\* Variant of PcAfterFetchLocal: a failed local call is tried again at once
PcAfterFetchLocalRetry(r) == IF r.ok THEN "match" ELSE "fetch_local"

\* After the local call the loop goes on to the match, whatever the result
PcAfterFetchLocal(r) == "match"

\* u64 subtraction a - b: whether it underflows, and its result, where a
\* negative number stands for the wrapped value 2^64 + (a - b)
SubUnderflows(a, b) == a < b
U64Sub(a, b) == a - b

\* Variant of ArmLastAlertTime: the LocalAhead arm clears the state too
ArmClearsWhenAhead(v, last) == IF v \in {"Synced", "LocalAhead"} THEN None ELSE last

\* Variant of ArmLastAlertTime: the Synced arm forgets to clear the state
ArmNeverClears(v, last) == last

\* What the arm does to last_alert_time before any process_alert call
ArmLastAlertTime(v, last) == IF v = "Synced" THEN None ELSE last

\* Variant of CallsProcessAlert: a remote failure alerts as well
CallsProcessAlertOnRemote(v) == v \in {"Lagging", "LocalUnreachable", "RemoteUnreachable"}

\* The arms that call process_alert
CallsProcessAlert(v) == v \in {"Lagging", "LocalUnreachable"}

\* Variant of ShouldAlert: the cooldown boundary lets the alert through
ShouldAlertAtBoundary(last, t, cooldown) == IF last = None THEN TRUE ELSE t - last >= cooldown

\* Variant of ShouldAlert: once stamped, the gate stays shut
ShouldAlertOnce(last, t, cooldown) == last = None

\* process_alert: let should_alert = match last_alert_time { ... }
ShouldAlert(last, t, cooldown) == IF last = None THEN TRUE ELSE t - last > cooldown

\* send_alert: the value returned, given the URL and what the network does
send_alert(url, net) ==
    IF is_empty(url) \/ contains_REDACTED(url) THEN "Ok"
    ELSE IF net = "transport_failure" THEN "Err"
    ELSE "Ok"

\* send_alert: whether a POST is issued at all
IssuesPost(url) == ~(is_empty(url) \/ contains_REDACTED(url))

\* Variant of PcAfterSend: the error of send_alert is propagated and ends the task
PcAfterSendErrExits(result) == IF result = "Err" THEN "exited" ELSE "stamp"

\* Variant of PcAfterSend: the stamp is taken whatever send_alert returned
PcAfterSendAlwaysStamp(result) == "stamp"

\* process_alert: if let Err(e) = send_alert(..) { log } else { stamp }
PcAfterSend(result) == IF result = "Err" THEN "sleep" ELSE "stamp"

\* Variant of StampTime: the stamp is the end of the window, not its start
StampTimeAhead(t) == t + 1

\* Variant of StampTime: a default timestamp is stored instead of the clock
StampTimeEpoch(t) == 0

\* process_alert: *last_alert_time = Some(Utc::now())
StampTime(t) == t

\* ---- parse_hex_to_u64 ----

\* The characters the arguments are made of, and the arguments: every string up
\* to MaxHexLen, and some long ones around the width of u64
HexChars == {"0", "1", "a", "A", "x", "X", "+", "-", "Z"}
Rep(c, n) == [i \in 1..n |-> c]
LongInputs ==
    { Rep("a", U64HexDigits),
      Rep("1", U64HexDigits + 1),
      <<"0", "x">> \o Rep("A", U64HexDigits),
      <<"0", "x">> \o Rep("1", U64HexDigits + 1),
      Rep("0", U64HexDigits + 1) \o <<"1">>,
      <<"1">> \o Rep("0", U64HexDigits) }
HexInputs == UNION {[1..n -> HexChars] : n \in 0..MaxHexLen} \cup LongInputs

\* Result<u64, ParseIntError>, and the Result of fetch_block_number built on it.
\* A u64 is held as its hexadecimal numeral without leading zeros (zero is <<>>)
OkR(num) == [ok |-> TRUE, val |-> num, err |-> "none", msg |-> "none"]
ErrR(kind) == [ok |-> FALSE, val |-> <<>>, err |-> kind, msg |-> "none"]

\* char::to_digit(16), -1 for None
DigitValue(c) ==
    CASE c = "0" -> 0
      [] c = "1" -> 1
      [] c \in {"a", "A"} -> 10
      [] OTHER -> -1

\* Variant of trim_start_matches_0x: nothing is stripped
TrimNothing(s) == s

\* hex.trim_start_matches("0x"): every leading repetition of "0x" is removed
RECURSIVE trim_start_matches_0x(_)
trim_start_matches_0x(s) ==
    IF Len(s) >= 2 /\ s[1] = "0" /\ s[2] = "x"
    THEN trim_start_matches_0x(SubSeq(s, 3, Len(s)))
    ELSE s

\* The digit loop of from_str_radix: result = result * 16 + digit, checked
RECURSIVE ParseDigits(_, _)
ParseDigits(digits, acc) ==
    IF digits = <<>> THEN OkR(acc)
    ELSE LET v == DigitValue(Head(digits))
             next == IF acc = <<>> /\ v = 0 THEN <<>> ELSE Append(acc, v)
         IN  IF v < 0 THEN ErrR("InvalidDigit")
             ELSE IF Len(next) > U64HexDigits THEN ErrR("PosOverflow")
             ELSE ParseDigits(Tail(digits), next)

\* u64::from_str_radix(src, 16)
from_str_radix_16(src) ==
    IF src = <<>> THEN ErrR("Empty")
    ELSE IF Len(src) = 1 /\ src[1] \in {"+", "-"} THEN ErrR("InvalidDigit")
    ELSE IF src[1] = "+" THEN ParseDigits(Tail(src), <<>>)
    ELSE ParseDigits(src, <<>>)

\* parse_hex_to_u64
parse_hex_to_u64(hex) == from_str_radix_16(trim_start_matches_0x(hex))

\* The number a numeral stands for (short numerals only)
RECURSIVE NumeralValue(_)
NumeralValue(num) ==
    IF num = <<>> THEN 0 ELSE 16 * NumeralValue(SubSeq(num, 1, Len(num) - 1)) + num[Len(num)]

\* ---- fetch_block_number ----

\* The strings a "result" member may hold
ResultTexts ==
    { <<"0", "x", "1", "0", "a">>, <<"1", "0", "a">>, <<"0", "x", "0">>,
      <<"0", "x", "Z">>, <<"0", "x">>, <<>> }

\* The body of the response: unparsable, a JSON value that is no object, or an
\* object with or without an "error" member (null, a string, an object without
\* "message", with a "message" that is a number, with one that is a string) and
\* with or without a "result" member (a number or a string)
Bodies ==
    { [json |-> "not_json", error |-> "absent", message |-> "none",
       result |-> "absent", text |-> <<>>],
      [json |-> "array", error |-> "absent", message |-> "none",
       result |-> "absent", text |-> <<>>] }
    \cup
    { [json |-> "object", error |-> e, message |-> "none", result |-> r, text |-> <<>>] :
        e \in {"absent", "null", "string", "object_no_message", "object_message_number"},
        r \in {"absent", "number"} }
    \cup
    { [json |-> "object", error |-> e, message |-> "none", result |-> "string", text |-> t] :
        e \in {"absent", "null", "string", "object_no_message", "object_message_number"},
        t \in ResultTexts }
    \cup
    { [json |-> "object", error |-> "object_message_string", message |-> "header not found",
       result |-> r, text |-> <<>>] : r \in {"absent", "number"} }
    \cup
    { [json |-> "object", error |-> "object_message_string", message |-> "header not found",
       result |-> "string", text |-> t] : t \in ResultTexts }

\* What the endpoint does with the POST
Responses ==
    { [transport |-> tr, status |-> st, body |-> b] :
        tr \in {"ok", "fail"}, st \in {"2xx", "non2xx"}, b \in Bodies }

\* The Err values of fetch_block_number
RpcError(e) == [ok |-> FALSE, val |-> <<>>, err |-> "Protocol", msg |-> e]

\* Variant of fetch_block_number: the "result" member is looked at before "error"
FetchResultFirst(r) ==
    IF r.transport = "fail" THEN ErrR("Transport")
    ELSE IF r.status = "non2xx" THEN ErrR("HttpStatus")
    ELSE IF r.body.json = "not_json" THEN ErrR("NotJson")
    ELSE IF r.body.result = "string" /\ parse_hex_to_u64(r.body.text).ok
         THEN parse_hex_to_u64(r.body.text)
    ELSE IF r.body.error # "absent"
         THEN RpcError(IF r.body.error = "object_message_string"
                       THEN r.body.message ELSE "Unknown RPC error")
    ELSE IF r.body.result # "string" THEN ErrR("MalformedResult")
    ELSE ErrR("HexDecode")

\* fetch_block_number, given what the endpoint answers
fetch_block_number(r) ==
    IF r.transport = "fail" THEN ErrR("Transport")
    ELSE IF r.status = "non2xx" THEN ErrR("HttpStatus")
    ELSE IF r.body.json = "not_json" THEN ErrR("NotJson")
    ELSE IF r.body.error # "absent"
         THEN RpcError(IF r.body.error = "object_message_string"
                       THEN r.body.message ELSE "Unknown RPC error")
    ELSE IF r.body.result # "string" THEN ErrR("MalformedResult")
    ELSE IF parse_hex_to_u64(r.body.text).ok THEN parse_hex_to_u64(r.body.text)
    ELSE ErrR("HexDecode")

\* ---- the cycle's case, stated on the raw results (used by the history
\* ---- variables and by the properties, never by the code's actions)
SyncedResults ==
    /\ remote_result.ok /\ local_result.ok
    /\ local_result.val <= remote_result.val
    /\ remote_result.val - local_result.val < lag_threshold

BothFetched == remote_result # NoResult /\ local_result # NoResult

AheadResults ==
    /\ remote_result.ok /\ local_result.ok
    /\ local_result.val > remote_result.val

RemoteFailedResults == BothFetched /\ ~remote_result.ok

AlertableResults ==
    /\ BothFetched
    /\ remote_result.ok
    /\ \/ ~local_result.ok
       \/ /\ local_result.val <= remote_result.val
          /\ remote_result.val - local_result.val >= lag_threshold

\* ---- the state machine ----

Init ==
    /\ pc = "fetch_remote"
    /\ now = 0
    /\ last_alert_time = None
    /\ lag_threshold \in 0..MaxThreshold
    /\ alert_cooldown \in 0..MaxCooldown   \* Duration::minutes(n as i64), n < 2^63
    /\ poll_interval_seconds \in 0..MaxPoll
    /\ discord_webhook \in WebhookUrls
    /\ remote_result = NoResult
    /\ local_result = NoResult
    /\ verdict = "none"
    /\ lag = None
    /\ lead = None
    /\ should_alert = FALSE
    /\ gate_now = None
    /\ webhook_response = "no_request"
    /\ send_result = "none"
    /\ pre_last = None
    /\ dispatches = 0
    /\ last_stamp = None
    /\ synced_since = FALSE
    /\ retry_pending = FALSE
    /\ fresh = TRUE
    /\ sent_ok = FALSE
    /\ rpc_log = <<>>
    /\ hex_in = <<>>
    /\ hex_out = NotRun
    /\ resp = NoResponse
    /\ rpc_out = NotRun

\* let remote_result = fetch_block_number(&client, &config.remote_rpc).await
FetchRemote ==
    /\ pc = "fetch_remote"
    /\ \E r \in RpcResults : remote_result' = r
    /\ rpc_log' = Append(rpc_log, "remote")
    /\ pc' = "fetch_local"
    /\ UNCHANGED <<now, last_alert_time, config, local_result, verdict, lag, lead,
                   should_alert, gate_now, webhook_response, send_result, pre_last,
                   dispatches, history, sent_ok, pure>>

\* let local_result = fetch_block_number(&client, &config.local_rpc).await
FetchLocal ==
    /\ pc = "fetch_local"
    /\ \E r \in RpcResults :
        /\ local_result' = r
        /\ pc' = PcAfterFetchLocal(r)
    /\ rpc_log' = Append(rpc_log, "local")
    /\ UNCHANGED <<now, last_alert_time, config, remote_result, verdict, lag, lead,
                   should_alert, gate_now, webhook_response, send_result, pre_last,
                   dispatches, history, sent_ok, pure>>

\* match (remote_result, local_result) { ... } up to the call of process_alert
Match ==
    /\ pc = "match"
    /\ LET v == Classify(remote_result, local_result, lag_threshold)
           underflow ==
               \/ v \in {"Synced", "Lagging"}
                     /\ SubUnderflows(remote_result.val, local_result.val)
               \/ v = "LocalAhead" /\ SubUnderflows(local_result.val, remote_result.val)
       IN
        /\ verdict' = v
        /\ lag' = IF v \in {"Synced", "Lagging"}
                  THEN U64Sub(remote_result.val, local_result.val) ELSE None
        /\ lead' = IF v = "LocalAhead"
                   THEN U64Sub(local_result.val, remote_result.val) ELSE None
        /\ last_alert_time' = ArmLastAlertTime(v, last_alert_time)
        \* an underflowing subtraction panics (overflow checks on) or wraps (off)
        /\ pc' \in (IF underflow THEN {"panicked"} ELSE {})
                      \cup {IF CallsProcessAlert(v) THEN "gate" ELSE "sleep"}
    /\ UNCHANGED <<now, config, remote_result, local_result, should_alert, gate_now,
                   webhook_response, send_result, pre_last, dispatches, history,
                   sent_ok, rpc_log, pure>>

\* process_alert: the cooldown check
Gate ==
    /\ pc = "gate"
    /\ should_alert' = ShouldAlert(last_alert_time, now, alert_cooldown)
    /\ gate_now' = now
    /\ pc' = IF should_alert' THEN "send" ELSE "sleep"
    /\ UNCHANGED <<now, last_alert_time, config, remote_result, local_result, verdict,
                   lag, lead, webhook_response, send_result, pre_last, dispatches,
                   history, sent_ok, rpc_log, pure>>

\* process_alert: send_alert(client, webhook_url, message).await
SendAlert ==
    /\ pc = "send"
    /\ \E net \in WebhookResponses :
        /\ webhook_response' = IF IssuesPost(discord_webhook) THEN net ELSE "no_request"
        /\ send_result' = send_alert(discord_webhook, net)
    /\ dispatches' = dispatches + 1
    /\ sent_ok' = (sent_ok \/ send_result' = "Ok")
    /\ pc' = PcAfterSend(send_result')
    /\ UNCHANGED <<now, last_alert_time, config, remote_result, local_result, verdict,
                   lag, lead, should_alert, gate_now, pre_last, history, rpc_log, pure>>

\* process_alert: *last_alert_time = Some(Utc::now())
Stamp ==
    /\ pc = "stamp"
    /\ last_alert_time' = StampTime(now)
    /\ last_stamp' = last_alert_time'
    /\ synced_since' = FALSE
    /\ pc' = "sleep"
    /\ UNCHANGED <<now, config, remote_result, local_result, verdict, lag, lead,
                   should_alert, gate_now, webhook_response, send_result, pre_last,
                   dispatches, retry_pending, fresh, sent_ok, rpc_log, pure>>

\* tokio::time::sleep(poll_interval_seconds).await, then the next iteration begins
Sleep ==
    /\ pc = "sleep"
    /\ now' = IF now + poll_interval_seconds <= MaxTime
              THEN now + poll_interval_seconds ELSE MaxTime
    /\ pc' = "fetch_remote"
    /\ remote_result' = NoResult
    /\ local_result' = NoResult
    /\ verdict' = "none"
    /\ lag' = None
    /\ lead' = None
    /\ should_alert' = FALSE
    /\ gate_now' = None
    /\ webhook_response' = "no_request"
    /\ send_result' = "none"
    /\ pre_last' = last_alert_time
    /\ dispatches' = 0
    /\ synced_since' = (SyncedResults \/ synced_since)
    /\ fresh' = IF SyncedResults THEN TRUE ELSE IF AlertableResults THEN FALSE ELSE fresh
    /\ retry_pending' = IF send_result = "Err" THEN TRUE
                        ELSE IF AlertableResults THEN FALSE ELSE retry_pending
    /\ sent_ok' = IF SyncedResults THEN FALSE ELSE sent_ok
    /\ rpc_log' = <<>>
    /\ UNCHANGED <<last_alert_time, config, last_stamp, pure>>

\* Time passes while the task is suspended or between two statements
Tick ==
    /\ now < MaxTime
    /\ now' = now + 1
    /\ UNCHANGED <<pc, last_alert_time, config, remote_result, local_result, verdict,
                   lag, lead, should_alert, gate_now, webhook_response, send_result,
                   pre_last, dispatches, history, sent_ok, rpc_log, pure>>

Next ==
    \/ FetchRemote
    \/ FetchLocal
    \/ Match
    \/ Gate
    \/ SendAlert
    \/ Stamp
    \/ Sleep
    \/ Tick

Spec == Init /\ [][Next]_vars

\* ---- the two functions on their own ----

PureInit ==
    /\ pc \in {"call_parse_hex", "call_fetch"}
    /\ IF pc = "call_parse_hex"
       THEN hex_in \in HexInputs /\ resp = NoResponse
       ELSE hex_in = <<>> /\ resp \in Responses
    /\ hex_out = NotRun
    /\ rpc_out = NotRun
    /\ now = 0
    /\ last_alert_time = None
    /\ lag_threshold = 0
    /\ alert_cooldown = 0
    /\ poll_interval_seconds = 0
    /\ discord_webhook = "empty"
    /\ remote_result = NoResult
    /\ local_result = NoResult
    /\ verdict = "none"
    /\ lag = None
    /\ lead = None
    /\ should_alert = FALSE
    /\ gate_now = None
    /\ webhook_response = "no_request"
    /\ send_result = "none"
    /\ pre_last = None
    /\ dispatches = 0
    /\ last_stamp = None
    /\ synced_since = FALSE
    /\ retry_pending = FALSE
    /\ fresh = TRUE
    /\ sent_ok = FALSE
    /\ rpc_log = <<>>

loop_vars == <<now, last_alert_time, config, remote_result, local_result, verdict, lag,
               lead, should_alert, gate_now, webhook_response, send_result, pre_last,
               dispatches, history, sent_ok, rpc_log>>

\* A call of parse_hex_to_u64
ParseHex ==
    /\ pc = "call_parse_hex"
    /\ hex_out' = parse_hex_to_u64(hex_in)
    /\ pc' = "returned_parse_hex"
    /\ UNCHANGED <<loop_vars, hex_in, resp, rpc_out>>

\* A call of fetch_block_number
FetchBlockNumber ==
    /\ pc = "call_fetch"
    /\ rpc_out' = fetch_block_number(resp)
    /\ pc' = "returned_fetch"
    /\ UNCHANGED <<loop_vars, hex_in, hex_out, resp>>

PureNext == ParseHex \/ FetchBlockNumber

PureSpec == PureInit /\ [][PureNext]_vars

\* The statements of the loop body: the runtime keeps driving the one task, every
\* request ends (the client has a 10 s timeout) and the sleep is finite
Step == FetchRemote \/ FetchLocal \/ Match \/ Gate \/ SendAlert \/ Stamp \/ Sleep

\* The loop under a scheduler that keeps running it and a clock that keeps advancing
LiveSpec == Init /\ [][Next]_vars /\ WF_vars(Step) /\ WF_vars(Tick)

\* ---- properties ----

\* The start of the cooldown window in force: the latest stamp, unless a Synced
\* cycle has ended since
WindowStart == IF synced_since THEN None ELSE last_stamp

\* C1: at the end of every cycle whose results are Lagging or LocalUnreachable,
\* send_alert was called (once) exactly when last_alert_time was unset or the clock
\* read by the gate exceeded it by strictly more than the cooldown; at exactly the
\* cooldown the alert is suppressed.
C1_CooldownGate ==
    (pc = "sleep" /\ AlertableResults) =>
        /\ dispatches \in {0, 1}
        /\ dispatches = 1 <=> (pre_last = None \/ gate_now - pre_last > alert_cooldown)
        /\ (pre_last # None /\ gate_now - pre_last = alert_cooldown) => dispatches = 0

C1_Witness ==
    /\ pc = "sleep" /\ AlertableResults
    /\ pre_last # None /\ alert_cooldown > 0
    /\ gate_now - pre_last = alert_cooldown
    /\ dispatches = 0

\* C2: while a stamp at time t is in force (no Synced cycle has ended since), no
\* dispatch is attempted at a time <= t + cooldown, whatever LocalAhead,
\* RemoteUnreachable, Lagging or LocalUnreachable cycles came in between.
C2_NoRedispatchInWindow ==
    (pc = "send" /\ WindowStart # None) => now > WindowStart + alert_cooldown

C2_Witness ==
    /\ pc = "sleep" /\ AlertableResults
    /\ WindowStart # None /\ pre_last = WindowStart
    /\ now <= WindowStart + alert_cooldown
    /\ now > WindowStart
    /\ dispatches = 0

\* C3: in a cycle whose results are Lagging or LocalUnreachable, last_alert_time
\* differs from its value at the start of the cycle only if the gate permitted the
\* alert and send_alert returned Ok.
C3_StampOnlyOnSuccess ==
    AlertableResults =>
        /\ last_alert_time # pre_last => (should_alert /\ send_result = "Ok")
        /\ (pc = "sleep" /\ (~should_alert \/ send_result = "Err"))
              => last_alert_time = pre_last

C3_Witness ==
    /\ pc = "sleep" /\ AlertableResults
    /\ should_alert /\ send_result = "Err"
    /\ pre_last # None /\ last_alert_time = pre_last

\* C4: when the latest dispatch attempt failed, the next cycle whose results are
\* Lagging or LocalUnreachable passes the gate and calls send_alert again, however
\* little time has passed.
C4_RetryAfterFailure ==
    (retry_pending /\ AlertableResults /\ pc \notin {"match", "gate"}) =>
        /\ should_alert
        /\ pc = "sleep" => dispatches = 1

C4_Witness ==
    /\ retry_pending /\ AlertableResults /\ pc = "sleep"
    /\ dispatches = 1 /\ pre_last # None
    /\ now - pre_last = alert_cooldown + 1

\* C5 (as claimed): for a configured webhook URL, a transport failure or a non-2xx
\* status makes send_alert return Err, and the cycle does not stamp.
C5_SendFailsOnBadResponse ==
    (discord_webhook = "configured"
        /\ webhook_response \in {"transport_failure", "status_non2xx"}) =>
        /\ send_result = "Err"
        /\ pc = "sleep"
        /\ last_alert_time = pre_last

\* C6: a cycle whose results are Synced goes straight to sleep with last_alert_time
\* unset and no dispatch; the first alertable cycle after the start or after a Synced
\* cycle passes the gate and calls send_alert.
C6_SyncedResets ==
    /\ (SyncedResults /\ pc # "match") =>
          (pc = "sleep" /\ last_alert_time = None /\ dispatches = 0)
    /\ (fresh /\ AlertableResults /\ pc \notin {"match", "gate"}) =>
          (should_alert /\ (pc = "sleep" => dispatches = 1))

C6_Witness ==
    /\ fresh /\ AlertableResults /\ pc = "send"
    /\ last_stamp # None /\ synced_since
    /\ now - last_stamp <= alert_cooldown

\* C7: a cycle whose results are LocalAhead or RemoteUnreachable goes straight to
\* sleep, never calls send_alert, and leaves last_alert_time as it was.
C7_QuietArms ==
    ((AheadResults \/ RemoteFailedResults) /\ pc # "match") =>
        /\ pc = "sleep"
        /\ dispatches = 0 /\ send_result = "none"
        /\ last_alert_time = pre_last

C7_Witness ==
    /\ pc = "sleep" /\ AheadResults
    /\ last_alert_time # None
    /\ now - last_alert_time > alert_cooldown

\* C8: with both heights fetched, local > remote is LocalAhead with lead = local -
\* remote; local <= remote with remote - local < threshold is Synced; local <= remote
\* with remote - local >= threshold (the boundary included) is Lagging.
C8_Classification ==
    (remote_result.ok /\ local_result.ok /\ pc # "match") =>
        LET l == local_result.val
            r == remote_result.val
        IN  /\ l > r => (verdict = "LocalAhead" /\ lead = l - r /\ lag = None)
            /\ (l <= r /\ r - l < lag_threshold) =>
                  (verdict = "Synced" /\ lag = r - l /\ lead = None)
            /\ (l <= r /\ r - l >= lag_threshold) =>
                  (verdict = "Lagging" /\ lag = r - l /\ lead = None)
            /\ (verdict = "Lagging") <=> (gate_now # None \/ pc = "gate")

C8_Witness ==
    /\ remote_result.ok /\ local_result.ok
    /\ verdict = "Lagging"
    /\ lag_threshold > 0
    /\ remote_result.val - local_result.val = lag_threshold

\* C9: when the remote call failed the cycle is RemoteUnreachable and goes to sleep
\* without a dispatch, whatever the local result; the LocalUnreachable arm is taken
\* exactly when the remote call succeeded and the local call failed.
C9_RemoteFailureIsQuiet ==
    (BothFetched /\ pc # "match") =>
        /\ ~remote_result.ok =>
              (verdict = "RemoteUnreachable" /\ pc = "sleep" /\ dispatches = 0)
        /\ (verdict = "LocalUnreachable") <=> (remote_result.ok /\ ~local_result.ok)
        /\ (pc \in {"gate", "send", "stamp"} \/ dispatches > 0) => remote_result.ok

C9_Witness ==
    /\ pc = "sleep"
    /\ ~remote_result.ok /\ local_result = Err
    /\ last_alert_time = None /\ dispatches = 0

\* C10: last_alert_time is unset or a timestamp not later than the clock.
C10_NeverInFuture ==
    last_alert_time = None \/ (0 <= last_alert_time /\ last_alert_time <= now)

C10_Witness ==
    /\ pc = "sleep" /\ send_result = "Ok"
    /\ last_alert_time # None /\ last_alert_time = now
    /\ gate_now < now

\* C11: the loop has no terminal state: whatever the two calls and the dispatch
\* return, every cycle reaches the sleep and the sleep is followed by the next poll.
C11_LoopNeverStops ==
    /\ (pc # "sleep") ~> (pc = "sleep")
    /\ (pc = "sleep") ~> (pc = "fetch_remote")

C11_Witness ==
    /\ pc = "fetch_remote" /\ retry_pending
    /\ last_stamp # None

\* C16: with the node alertable in every cycle, a stamped alert whose cooldown ends
\* before the clock's bound is followed by another dispatch; a cycle that is not
\* alertable is the only way out.
C16_AlertsKeepComing ==
    (pc = "sleep" /\ send_result = "Ok" /\ last_alert_time # None
        /\ last_alert_time + alert_cooldown < MaxTime)
    ~> (pc = "send" \/ (BothFetched /\ ~AlertableResults))

C16_Witness ==
    /\ pc = "send" /\ AlertableResults
    /\ pre_last # None /\ pre_last = WindowStart
    /\ gate_now > pre_last + alert_cooldown

\* C17: a cycle issues one request to the remote endpoint, then one to the local
\* endpoint, and nothing more; the match runs only after both; the next poll starts
\* only from the sleep of the cycle before.
C17_OneRequestEach ==
    [][ /\ pc' = "fetch_remote" => (rpc_log' = <<>> /\ pc \in {"sleep", "fetch_remote"})
        /\ pc' = "fetch_local" => rpc_log' = <<"remote">>
        /\ pc' \notin {"fetch_remote", "fetch_local"} => rpc_log' = <<"remote", "local">>
        /\ verdict' # "none" => rpc_log' = <<"remote", "local">>
      ]_vars

C17_Witness ==
    /\ pc = "sleep" /\ rpc_log = <<"remote", "local">>
    /\ remote_result.ok /\ local_result = Err
    /\ dispatches = 1

\* C18 (as claimed): after a successful dispatch the value stamped is the instant the
\* gate used for its decision.
C18_StampIsGateInstant ==
    (pc = "sleep" /\ send_result = "Ok" /\ dispatches = 1) => last_alert_time = gate_now

\* C18 (amended): the value stamped is the clock as read after send_alert returned,
\* never earlier than the instant the gate used.
C18_StampIsClockAfterSend ==
    [][(pc = "stamp" /\ pc' # "stamp") =>
          (last_alert_time' = now /\ last_alert_time' >= gate_now)]_vars

C18_Witness ==
    /\ pc = "sleep" /\ send_result = "Ok" /\ webhook_response = "status_2xx"
    /\ last_alert_time # None /\ last_alert_time > gate_now

\* C19: last_alert_time is set only if send_alert has returned Ok since the start or
\* since the latest Synced cycle, and a cycle that is not alertable never sets it.
C19_SetOnlyAfterSuccess ==
    /\ last_alert_time # None => sent_ok
    /\ (BothFetched /\ ~AlertableResults /\ pre_last = None) => last_alert_time = None

C19_Witness ==
    /\ pc = "sleep" /\ AheadResults
    /\ last_alert_time # None /\ sent_ok

\* C20: the lag is computed only with local <= remote and the lead only with
\* local > remote, so neither subtraction underflows and no cycle panics.
C20_NoUnderflow ==
    /\ pc # "panicked"
    /\ verdict \in {"Synced", "Lagging"} =>
          /\ local_result.val <= remote_result.val
          /\ lag = remote_result.val - local_result.val
          /\ lag \in 0..remote_result.val
    /\ verdict = "LocalAhead" =>
          /\ local_result.val > remote_result.val
          /\ lead = local_result.val - remote_result.val
          /\ lead \in 1..local_result.val

C20_Witness ==
    /\ verdict = "LocalAhead"
    /\ remote_result.val = 0 /\ lead = local_result.val /\ lead > 1

\* C12 (as claimed): send_alert is a no-op returning Ok, with no request issued,
\* exactly when the URL is empty or is the placeholder; every other URL is POSTed to.
C12_NoOpOnlyForPlaceholder ==
    dispatches = 1 =>
        ((webhook_response = "no_request" /\ send_result = "Ok")
            <=> (UrlText(discord_webhook) = <<>> \/ UrlText(discord_webhook) = <<"REDACTED">>))

\* ---- what the decoder and the adapter are claimed to do ----

StartsWith(s, p) == Len(s) >= Len(p) /\ SubSeq(s, 1, Len(p)) = p
DropFirst(s, n) == SubSeq(s, n + 1, Len(s))
IsHexDigit(c) == c \in {"0", "1", "a", "A"}
AllHex(d) == \A i \in 1..Len(d) : IsHexDigit(d[i])
RefDigit(c) == IF c = "0" THEN 0 ELSE IF c = "1" THEN 1 ELSE 10

RECURSIVE StripZeros(_)
StripZeros(d) == IF d # <<>> /\ d[1] = "0" THEN StripZeros(Tail(d)) ELSE d

\* The base-16 value of a string of digits: as a numeral, and as a number
RefNumeral(d) == [i \in 1..Len(StripZeros(d)) |-> RefDigit(StripZeros(d)[i])]
RECURSIVE RefValue(_)
RefValue(d) ==
    IF d = <<>> THEN 0 ELSE 16 * RefValue(SubSeq(d, 1, Len(d) - 1)) + RefDigit(d[Len(d)])
FitsU64(d) == Len(StripZeros(d)) <= U64HexDigits

\* The decoder returns the value of the digits d
Decodes(d) ==
    /\ hex_out.ok
    /\ hex_out.val = RefNumeral(d)
    /\ Len(d) <= 7 => NumeralValue(hex_out.val) = RefValue(d)

\* C13 (as claimed): one optional leading "0x" or "0X" is stripped and the value of
\* the remaining digits is returned.
C13_AnyCasePrefix ==
    pc = "returned_parse_hex" =>
        \A p \in {<<>>, <<"0", "x">>, <<"0", "X">>} :
            LET d == DropFirst(hex_in, Len(p))
            IN  (StartsWith(hex_in, p) /\ d # <<>> /\ AllHex(d) /\ FitsU64(d)) => Decodes(d)

\* C13 (amended): a leading lower-case "0x" is stripped and the value of the
\* remaining digits, upper- or lower-case, is returned; "0X" is not a prefix and
\* fails; "0x10a", "10a" and "0x10A" give 266 and "0x0" gives 0.
C13_LowercasePrefix ==
    pc = "returned_parse_hex" =>
        /\ \A p \in {<<>>, <<"0", "x">>} :
            LET d == DropFirst(hex_in, Len(p))
            IN  (StartsWith(hex_in, p) /\ d # <<>> /\ AllHex(d) /\ FitsU64(d)) => Decodes(d)
        /\ StartsWith(hex_in, <<"0", "X">>) => ~hex_out.ok
        /\ hex_in \in {<<"0", "x", "1", "0", "a">>, <<"1", "0", "a">>,
                       <<"0", "x", "1", "0", "A">>}
              => (hex_out.ok /\ NumeralValue(hex_out.val) = 266)
        /\ hex_in = <<"0", "x", "0">> => (hex_out.ok /\ NumeralValue(hex_out.val) = 0)

C13_Witness ==
    /\ pc = "returned_parse_hex"
    /\ hex_in = <<"0", "x", "1", "0", "A">>
    /\ hex_out.ok /\ NumeralValue(hex_out.val) = 266

\* C14 (as claimed): an argument that, after one optional prefix is removed, is
\* empty, has a character that is no hexadecimal digit, or exceeds 2^64 - 1, fails.
C14_RejectsMalformed ==
    pc = "returned_parse_hex" =>
        LET d == IF StartsWith(hex_in, <<"0", "x">>) \/ StartsWith(hex_in, <<"0", "X">>)
                 THEN DropFirst(hex_in, 2) ELSE hex_in
        IN  (d = <<>> \/ ~AllHex(d) \/ ~FitsU64(d)) => ~hex_out.ok

\* The outcome claimed for a response, where the members of "present" are the
\* kinds of "error" member that count as an error
ClaimedOutcome(r, present) ==
    IF r.transport = "fail" THEN "Transport"
    ELSE IF r.status = "non2xx" THEN "HttpStatus"
    ELSE IF r.body.json = "not_json" THEN "NotJson"
    ELSE IF r.body.error \in present THEN "Protocol"
    ELSE IF r.body.result # "string" THEN "MalformedResult"
    ELSE IF r.body.text \in {<<"0", "x", "Z">>, <<"0", "x">>, <<>>} THEN "HexDecode"
    ELSE "none"

ClaimedHolds(present) ==
    LET want == ClaimedOutcome(resp, present)
    IN  /\ rpc_out.err = want
        /\ rpc_out.ok <=> want = "none"
        /\ want = "Protocol" =>
              rpc_out.msg = IF resp.body.error = "object_message_string"
                            THEN resp.body.message ELSE "Unknown RPC error"
        /\ want = "none" =>
              rpc_out.val = RefNumeral(IF StartsWith(resp.body.text, <<"0", "x">>)
                                       THEN DropFirst(resp.body.text, 2)
                                       ELSE resp.body.text)

\* C15 (as claimed): transport failure, then non-2xx status, then unparsable body
\* fail; then an "error" object gives a protocol error with its message or the
\* fallback, whatever "result" is; then without it a missing or non-string "result"
\* is malformed; then bad hex fails to decode; only otherwise the height is returned.
C15_ErrorObjectOnly ==
    pc = "returned_fetch" =>
        ClaimedHolds({"object_no_message", "object_message_number", "object_message_string"})

\* C15 (amended): the same order, with any "error" member (null or a string
\* included, not only an object) giving the protocol error.
C15_ClassificationOrder ==
    pc = "returned_fetch" =>
        ClaimedHolds({"null", "string", "object_no_message", "object_message_number",
                      "object_message_string"})

C15_Witness ==
    /\ pc = "returned_fetch"
    /\ resp.transport = "ok" /\ resp.status = "2xx"
    /\ resp.body.error = "object_message_string"
    /\ resp.body.result = "string" /\ resp.body.text = <<"0", "x", "1", "0", "a">>
    /\ rpc_out.err = "Protocol" /\ rpc_out.msg = "header not found"

====
